---------------------------- MODULE Spec2Model ----------------------------
(***************************************************************************)
(* Two-level clustering and alpha-shape boundary pipeline of               *)
(* app/src/app/components/clustering.ts (analyze) and                      *)
(* app/src/app/components/alphaShape.ts (alphaShape).                      *)
(*                                                                         *)
(* The libraries ml-kmeans (kmeansGenerator) and d3-delaunay               *)
(* (Delaunay.from) are outside the repository: a call to either is a       *)
(* nondeterministic choice over the results its contract allows.           *)
(* Coordinates are integers; the floating-point circumradius test is       *)
(* compared exactly on squared quantities, and an exact tie may round      *)
(* either way.                                                             *)
(***************************************************************************)
EXTENDS Integers, Sequences, FiniteSets

(***************************************************************************)
(* Bounds of the model.                                                    *)
(***************************************************************************)
GridMax == 2
MaxAlpha == 1
MaxSegs == 2
MaxRequested == 2
MaxMembers == 81
MaxEdges == 2
MaxIterations == 2
MaxIndex == 2

(***************************************************************************)
(* Program constants.                                                      *)
(***************************************************************************)
MinPoints == 4
MinClusterPoints == 4
MinCenters == 4
AnalyzeAlpha == 1

VARIABLES
    points, alpha, onlyOuter,     \* arguments of alphaShape
    triangles,                    \* delaunay.triangles, flat index triples
    t,                            \* loop index over triangles (0-based)
    edges,                        \* the Map, as its entries in insertion order
    apc,                          \* position inside alphaShape
    resultEdges,                  \* the value alphaShape returns
    survived,                     \* history: offsets t of triangles that passed the test
    dstat                         \* history: "none", "ok" or "threw" for Delaunay.from

alphaVars ==
    <<points, alpha, onlyOuter, triangles, t, edges, apc, resultEdges, survived, dstat>>

VARIABLES
    shape,                        \* the segments that make up the argument data
    nCluster,                     \* argument of analyze
    pc,                           \* position inside analyze
    actualNClusters,
    primaryClusters,              \* primaryResult.clusters
    uniqueClusters,
    ci,                           \* position of the for-of loop in uniqueClusters (1-based)
    subClusters,                  \* of the cluster being processed
    Hcenters, Pedges,
    longs, lats,                  \* the value analyze returns
    kmeansRuns,                   \* history: number of kmeansGenerator calls
    thrownAt,                     \* history: where an exception left analyze
    visited                       \* history: one entry per loop iteration

analyzeVars ==
    <<shape, nCluster, pc, actualNClusters, primaryClusters, uniqueClusters, ci,
      subClusters, Hcenters, Pedges, longs, lats, kmeansRuns, thrownAt, visited>>

VARIABLES
    kiter,                        \* results the running k-means generator has yielded
    kconv                         \* converged flag of the result it yielded last

kmVars == <<kiter, kconv>>

vars == <<alphaVars, analyzeVars, kmVars>>

-----------------------------------------------------------------------------
(***************************************************************************)
(* Geometry, lines 30-37 of alphaShape.ts, on squared lengths.             *)
(***************************************************************************)
Dist2(p, q) == (p[1] - q[1]) * (p[1] - q[1]) + (p[2] - q[2]) * (p[2] - q[2])

\* Heron's formula: 16 * area^2 in terms of the squared side lengths.
SixteenAreaSq(a2, b2, c2) ==
    2 * a2 * b2 + 2 * b2 * c2 + 2 * c2 * a2 - a2 * a2 - b2 * b2 - c2 * c2

\* area === 0
ZeroArea(pa, pb, pc3) ==
    SixteenAreaSq(Dist2(pa, pb), Dist2(pb, pc3), Dist2(pc3, pa)) = 0

\* The outcomes of (circum_r < alpha) for a triangle of non-zero area:
\* circum_r = a*b*c / (4*area), so circum_r < alpha iff
\* a^2 b^2 c^2 < 16 area^2 alpha^2.  On an exact tie the rounded
\* floating-point values may compare either way.
CircumTest(pa, pb, pc3, al) ==
    LET a2 == Dist2(pa, pb)
        b2 == Dist2(pb, pc3)
        c2 == Dist2(pc3, pa)
        lhs == a2 * b2 * c2
        rhs == SixteenAreaSq(a2, b2, c2) * al * al
    IN  IF lhs < rhs THEN {TRUE}
        ELSE IF lhs > rhs THEN {FALSE}
        ELSE {TRUE, FALSE}

-----------------------------------------------------------------------------
(***************************************************************************)
(* Delaunay.from(points).triangles: the library's contract.                *)
(* Point indices are 0-based as in the code; points[i] is pts[i + 1].      *)
(***************************************************************************)
Cross(a, b, c) == (b[1] - a[1]) * (c[2] - a[2]) - (b[2] - a[2]) * (c[1] - a[1])

\* d strictly inside the circumcircle of the counter-clockwise triangle a b c
InCircle(a, b, c, d) ==
    LET ax == a[1] - d[1]
        ay == a[2] - d[2]
        bx == b[1] - d[1]
        by == b[2] - d[2]
        cx == c[1] - d[1]
        cy == c[2] - d[2]
    IN  (ax * ax + ay * ay) * (bx * cy - cx * by)
        - (bx * bx + by * by) * (ax * cy - cx * ay)
        + (cx * cx + cy * cy) * (ax * by - bx * ay) > 0

Pt(pts, i) == pts[i + 1]

\* Counter-clockwise triangles with an empty circumcircle, each written once,
\* starting at its smallest index.
DelaunayCandidates(pts) ==
    LET I == 0 .. (Len(pts) - 1)
    IN  {tri \in I \X I \X I :
            /\ tri[1] < tri[2]
            /\ tri[1] < tri[3]
            /\ tri[2] # tri[3]
            /\ Cross(Pt(pts, tri[1]), Pt(pts, tri[2]), Pt(pts, tri[3])) > 0
            /\ \A d \in I :
                 ~InCircle(Pt(pts, tri[1]), Pt(pts, tri[2]), Pt(pts, tri[3]), Pt(pts, d))}

TriEdges(tri) == {<<tri[1], tri[2]>>, <<tri[2], tri[3]>>, <<tri[3], tri[1]>>}

\* The segments p q and r s cross at a point interior to both.
ProperCross(p, q, r, s) ==
    /\ Cross(p, q, r) * Cross(p, q, s) < 0
    /\ Cross(r, s, p) * Cross(r, s, q) < 0

Compatible(pts, t1, t2) ==
    /\ TriEdges(t1) \cap TriEdges(t2) = {}
    /\ \A e1 \in TriEdges(t1), e2 \in TriEdges(t2) :
         ~ProperCross(Pt(pts, e1[1]), Pt(pts, e1[2]), Pt(pts, e2[1]), Pt(pts, e2[2]))

Collinear(pts) ==
    \A i, j, k \in 1 .. Len(pts) : Cross(pts[i], pts[j], pts[k]) = 0

\* Collinear input: the library triangulates a jittered copy, so the triples it
\* returns are any consistent set of triples, all of zero area on the
\* caller's own coordinates.
JitteredTriangulations(pts) ==
    LET I == 0 .. (Len(pts) - 1)
        C == {tri \in I \X I \X I :
                tri[1] < tri[2] /\ tri[1] < tri[3] /\ tri[2] # tri[3]}
    IN  {T \in SUBSET C :
            /\ Cardinality(T) <= Len(pts) - 2
            /\ \A t1 \in T, t2 \in T :
                 t1 # t2 => TriEdges(t1) \cap TriEdges(t2) = {}}

\* The triangulations the library may return: the maximal sets of pairwise
\* non-overlapping Delaunay triangles (several when points are co-circular).
Triangulations(pts) ==
    LET C == DelaunayCandidates(pts)
        Ok(T) == \A t1 \in T, t2 \in T : t1 # t2 => Compatible(pts, t1, t2)
    IN  IF Collinear(pts) THEN JitteredTriangulations(pts)
        ELSE {T \in SUBSET C :
                /\ Ok(T)
                /\ \A c \in C \ T : ~Ok(T \cup {c})}

TriLess(t1, t2) ==
    \/ t1[1] < t2[1]
    \/ t1[1] = t2[1] /\ t1[2] < t2[2]
    \/ t1[1] = t2[1] /\ t1[2] = t2[2] /\ t1[3] < t2[3]

RECURSIVE Flatten(_)
\* The Uint32Array of index triples, triangles in lexicographic order.
Flatten(T) ==
    IF T = {} THEN <<>>
    ELSE LET m == CHOOSE x \in T : \A y \in T \ {x} : TriLess(x, y)
         IN  <<m[1], m[2], m[3]>> \o Flatten(T \ {m})

-----------------------------------------------------------------------------
(***************************************************************************)
(* addEdge, alphaShape.ts lines 12-22.                                     *)
(***************************************************************************)
\* The Map key `${i}-${j}`: for non-negative integers the string determines
\* the pair and is modelled by it.
Key(i, j) == <<i, j>>

Has(es, k) == \E n \in 1 .. Len(es) : es[n].key = k

Delete(es, k) == SelectSeq(es, LAMBDA en : en.key # k)

addEdgeNoCancel(es, i, j, outer) ==
    IF Has(es, Key(i, j)) \/ Has(es, Key(j, i))
    THEN es
    ELSE Append(es, [key |-> Key(i, j), val |-> <<i, j>>])

addEdgeDirected(es, i, j, outer) ==
    IF Has(es, Key(i, j))
    THEN es
    ELSE Append(es, [key |-> Key(i, j), val |-> <<i, j>>])

addEdge(es, i, j, outer) ==
    LET key1 == Key(i, j)
        key2 == Key(j, i)
    IN  IF Has(es, key1) \/ Has(es, key2)
        THEN IF outer /\ Has(es, key2) THEN Delete(es, key2) ELSE es
        ELSE Append(es, [key |-> key1, val |-> <<i, j>>])

\* Array.from(edges.values())
Values(es) == [n \in 1 .. Len(es) |-> es[n].val]

-----------------------------------------------------------------------------
(***************************************************************************)
(* alphaShape, alphaShape.ts lines 3-50.                                   *)
(***************************************************************************)
\* What the catch block of alphaShape leaves behind: return [].
AlphaCatchRethrow == [apc |-> "raised", resultEdges |-> <<>>]

AlphaCatch == [apc |-> "done", resultEdges |-> <<>>]

\* The outcomes of Delaunay.from(points): it throws, or returns a triangulation.
DelaunayOutcomes(pts) ==
    {[threw |-> TRUE, tris |-> <<>>]}
        \cup {[threw |-> FALSE, tris |-> Flatten(T)] : T \in Triangulations(pts)}

\* Entry of alphaShape up to the loop (lines 4-11); a throw of Delaunay.from
\* lands in the catch block (lines 46-49).
AlphaEntry ==
    /\ apc = "entry"
    /\ IF Len(points) < MinPoints
       THEN /\ resultEdges' = <<>>
            /\ apc' = "done"
            /\ UNCHANGED <<triangles, dstat>>
       ELSE \E d \in DelaunayOutcomes(points) :
              IF d.threw
              THEN /\ apc' = AlphaCatch.apc
                   /\ resultEdges' = AlphaCatch.resultEdges
                   /\ dstat' = "threw"
                   /\ UNCHANGED triangles
              ELSE /\ triangles' = d.tris
                   /\ apc' = "loop"
                   /\ dstat' = "ok"
                   /\ UNCHANGED resultEdges
    /\ UNCHANGED <<points, alpha, onlyOuter, t, edges, survived>>
    /\ UNCHANGED analyzeVars
    /\ UNCHANGED kmVars

\* One pass of the loop body (lines 23-42): the area and radius tests, then
\* addEdge(ia, ib); addEdge(ib, ic); addEdge(ic, ia) for a triangle that passes.
AlphaTriangle ==
    /\ apc = "loop"
    /\ t < Len(triangles)
    /\ LET ia == triangles[t + 1]
           ib == triangles[t + 2]
           ic == triangles[t + 3]
           pa == Pt(points, ia)
           pb == Pt(points, ib)
           pc3 == Pt(points, ic)
       IN  IF ZeroArea(pa, pb, pc3)
           THEN UNCHANGED <<edges, survived>>
           ELSE \E pass \in CircumTest(pa, pb, pc3, alpha) :
                  IF pass
                  THEN /\ edges' = addEdge(addEdge(addEdge(edges, ia, ib, onlyOuter),
                                                   ib, ic, onlyOuter),
                                           ic, ia, onlyOuter)
                       /\ survived' = survived \cup {t}
                  ELSE UNCHANGED <<edges, survived>>
    /\ t' = t + 3
    /\ UNCHANGED <<points, alpha, onlyOuter, triangles, apc, resultEdges, dstat>>
    /\ UNCHANGED analyzeVars
    /\ UNCHANGED kmVars

\* The loop ends: return Array.from(edges.values()) (lines 43-45).
AlphaFinish ==
    /\ apc = "loop"
    /\ t >= Len(triangles)
    /\ resultEdges' = Values(edges)
    /\ apc' = "done"
    /\ UNCHANGED <<points, alpha, onlyOuter, triangles, t, edges, survived, dstat>>
    /\ UNCHANGED analyzeVars
    /\ UNCHANGED kmVars

AlphaNext ==
    \/ AlphaEntry
    \/ AlphaTriangle
    \/ AlphaFinish

-----------------------------------------------------------------------------
(***************************************************************************)
(* analyze, clustering.ts: values and pure helpers.                        *)
(***************************************************************************)
Grid == (0 .. GridMax) \X (0 .. GridMax)

PtLess(p, q) == p[1] < q[1] \/ (p[1] = q[1] /\ p[2] < q[2])

RECURSIVE SortedSeq(_)
SortedSeq(S) ==
    IF S = {} THEN <<>>
    ELSE LET m == CHOOSE x \in S : \A y \in S \ {x} : PtLess(x, y)
         IN  <<m>> \o SortedSeq(S \ {m})

\* JavaScript values of a record field, tagged by their type.
Undefined == <<"undefined", 0>>
Null == <<"null", 0>>
NaN == <<"NaN", 0>>
Infinity == <<"Infinity", 0>>
Num(n) == <<"number", n>>

\* Number(v)
Number(v) ==
    IF v = Undefined THEN NaN
    ELSE IF v = Null THEN Num(0)
    ELSE v

isNaN(x) == x = NaN

\* The predicate of the filter (lines 19-24).
Keeps(row) ==
    /\ row.Latitude # Undefined
    /\ row.Longitude # Undefined
    /\ ~isNaN(Number(row.Latitude))
    /\ ~isNaN(Number(row.Longitude))

\* data.filter(...).map(row => [Number(row.Latitude), Number(row.Longitude)])
\* .map(row => [Number(row.Latitude), Number(row.Longitude)]); the array is
\* bound once, as a value.
LatLng(rows) ==
    CHOOSE f \in {[n \in DOMAIN s |-> <<Number(s[n].Latitude), Number(s[n].Longitude)>>] :
                     s \in {rows}} : TRUE

\* The (row, idx) pairs that the callback of Array.prototype.filter receives;
\* idx is 1-based here.
WithIndex(seq) ==
    CHOOSE f \in {[i \in DOMAIN s |-> [row |-> s[i], idx |-> i]] : s \in {seq}} : TRUE

Features(d) == LatLng(SelectSeq(d, Keeps))

Min(a, b) == IF a < b THEN a ELSE b

\* Math.min(nCluster, features.length)
ClampClusters(requested, n) == Min(requested, n)

NothingToClusterBelowZero(actual, n) == actual < 0 \/ n < 1

\* actualNClusters < 1 || features.length < 1
NothingToCluster(actual, n) == actual < 1 \/ n < 1

Indices(s) == [i \in 1 .. Len(s) |-> i]

RECURSIVE Ascending(_)
Ascending(S) ==
    IF S = {} THEN <<>>
    ELSE LET m == CHOOSE x \in S : \A y \in S : x <= y
         IN  <<m>> \o Ascending(S \ {m})

UniqueClustersSorted(pcs) == Ascending({pcs[i] : i \in 1 .. Len(pcs)})

\* Array.from(new Set(primaryClusters)): the distinct ids in order of first
\* appearance.
UniqueClusters(pcs) ==
    LET first == SelectSeq(Indices(pcs), LAMBDA i : \A j \in 1 .. (i - 1) : pcs[j] # pcs[i])
    IN  [n \in 1 .. Len(first) |-> pcs[first[n]]]

\* data.filter((row, idx) => idx < primaryClusters.length &&
\*                           primaryClusters[idx] === clusterId)
\*     .map(row => [Number(row.Longitude), Number(row.Latitude)])
\* idx runs over the records of data (1-based here).
\* .map(row => [Number(row.Longitude), Number(row.Latitude)]) on the filtered
\* (row, idx) pairs.
LngLat(pairs) ==
    CHOOSE f \in {[n \in DOMAIN s |->
                       <<Number(s[n].row.Longitude), Number(s[n].row.Latitude)>>] :
                     s \in {pairs}} : TRUE

ClusterPointsOf(d, pcs, clusterId) ==
    LngLat(SelectSeq(WithIndex(d), LAMBDA r : r.idx <= Len(pcs) /\ pcs[r.idx] = clusterId))

RoundPowQuarter(m) ==
    CHOOSE k \in 0 .. m :
        /\ (2 * k - 1) * (2 * k - 1) * (2 * k - 1) * (2 * k - 1) <= 16 * m
        /\ (2 * k + 1) * (2 * k + 1) * (2 * k + 1) * (2 * k + 1) > 16 * m

\* Math.floor(Math.pow(m, 0.25))
FloorPowQuarter(m) ==
    CHOOSE k \in 0 .. m : k * k * k * k <= m /\ (k + 1) * (k + 1) * (k + 1) * (k + 1) > m

\* lines 65-66
SubClusterCount(m) ==
    LET k == FloorPowQuarter(m) IN IF k < 1 THEN 1 ELSE k

\* if (j < centers.length && k < centers.length)
InRange(centers, edge) == edge[1] < Len(centers) /\ edge[2] < Len(centers)

PairsOfFirstEndpoint(centers, es, axis) ==
    LET kept == SelectSeq(es, LAMBDA edge : InRange(centers, edge))
    IN  [n \in 1 .. Len(kept) |->
            <<Pt(centers, kept[n][1])[axis], Pt(centers, kept[n][1])[axis]>>]

\* The pairs one Hcenters/Pedges entry appends to longs (axis 1) or lats (axis 2).
PairsOf(centers, es, axis) ==
    LET kept == SelectSeq(es, LAMBDA edge : InRange(centers, edge))
    IN  [n \in 1 .. Len(kept) |->
            <<Pt(centers, kept[n][1])[axis], Pt(centers, kept[n][2])[axis]>>]

RECURSIVE Assemble(_, _, _)
\* The loop of lines 117-129 over Hcenters and Pedges.
Assemble(Hc, Pe, axis) ==
    IF Hc = <<>> THEN <<>>
    ELSE Assemble(SubSeq(Hc, 1, Len(Hc) - 1), SubSeq(Pe, 1, Len(Pe) - 1), axis)
            \o PairsOf(Hc[Len(Hc)], Pe[Len(Pe)], axis)

-----------------------------------------------------------------------------
(***************************************************************************)
(* Inputs of analyze and results of kmeansGenerator.                       *)
(***************************************************************************)
\* A segment of the input: 0 is one record without Latitude, n > 0 is a run of
\* n valid records.  The run lengths give clusters below the threshold of 4
\* points and clusters on either side of 4^4 = 256 points, where the
\* sub-cluster count reaches 4.
SegKinds ==
    {0, 1, MinCenters * MinCenters * MinCenters * MinCenters - 1,
     MinCenters * MinCenters * MinCenters * MinCenters}

Shapes == UNION {[1 .. n -> SegKinds] : n \in 0 .. MaxSegs}

\* The coordinate values of a record other than a number from the file: a
\* missing field, an empty field (null under dynamicTyping), NaN, an infinity.
OddValues == <<Undefined, Null, NaN, Infinity>>

\* A segment -j is one record with an odd value for its Latitude
\* (j = 1..4) or for its Longitude (j = 5..8).
OddKinds == {0 - j : j \in 1 .. (2 * Len(OddValues))}

OddRecord(j, base) ==
    IF j <= Len(OddValues)
    THEN [Latitude |-> OddValues[j], Longitude |-> Num(0 - (base + 1))]
    ELSE [Latitude |-> Num(base + 1), Longitude |-> OddValues[j - Len(OddValues)]]

\* The records of one segment that starts after `base` records; every valid
\* record has its own coordinates, Latitude > 0 > Longitude.
SegRecords(kind, base) ==
    IF kind = 0
    THEN <<[Latitude |-> Undefined, Longitude |-> Num(0 - (base + 1))]>>
    ELSE IF kind < 0
    THEN <<OddRecord(0 - kind, base)>>
    ELSE [n \in 1 .. kind |->
            [Latitude |-> Num(base + n), Longitude |-> Num(0 - (base + n))]]

RECURSIVE RecordsIn(_)
\* The number of records in the segments segs.
RecordsIn(segs) ==
    IF segs = <<>> THEN 0
    ELSE RecordsIn(SubSeq(segs, 1, Len(segs) - 1))
            + (IF segs[Len(segs)] <= 0 THEN 1 ELSE segs[Len(segs)])

RECURSIVE DataOf(_)
DataOf(segs) ==
    IF segs = <<>> THEN <<>>
    ELSE DataOf(SubSeq(segs, 1, Len(segs) - 1))
            \o SegRecords(segs[Len(segs)], RecordsIn(SubSeq(segs, 1, Len(segs) - 1)))

RunsOf(segs) == SelectSeq(segs, LAMBDA k : k > 0)

RECURSIVE Expand(_, _)
\* The assignment that gives every point of run r the id ids[r].
Expand(rs, ids) ==
    IF rs = <<>> THEN <<>>
    ELSE Expand(SubSeq(rs, 1, Len(rs) - 1), ids)
            \o [n \in 1 .. rs[Len(rs)] |-> ids[Len(rs)]]

\* kmeansGenerator(features, K, {}) drained by the for-of loop: it throws,
\* yields nothing, or ends on a result whose clusters hold one id in 0..K-1
\* per point (here: one id per run of the input).
PrimaryOutcomes(rs, K) ==
    {[kind |-> "throw", clusters |-> <<>>], [kind |-> "none", clusters |-> <<>>]}
        \cup {[kind |-> "ok", clusters |-> Expand(rs, ids)] :
                ids \in [1 .. Len(rs) -> 0 .. (K - 1)]}

Rect(w, h) == {<<0, 0>>, <<w, 0>>, <<0, h>>, <<w, h>>}

Kite(w) == {<<0, 0>>, <<1, 0>>, <<0, 1>>, <<w, w>>}

\* The centroid sets of a result with k centroids, [longitude, latitude] each:
\* a square of side alpha (both triangles pass the radius test), a square of
\* side 2 alpha (none passes) and a kite (one passes), for the alpha that
\* analyze uses, cut or extended to k points.
CentroidSets(k) ==
    LET base == {Rect(AnalyzeAlpha, AnalyzeAlpha), Rect(2 * AnalyzeAlpha, 2 * AnalyzeAlpha),
                 Kite(2 * AnalyzeAlpha)}
    IN  {IF k <= MinCenters THEN SubSeq(SortedSeq(S), 1, k)
         ELSE SortedSeq(S)
                \o [n \in 1 .. (k - MinCenters) |-> <<n - 1, 3 * AnalyzeAlpha>>] : S \in base}

\* kmeansGenerator(clusterPoints, subClusters, {}) drained by the for-of loop.
\* The map of lines 86-89 takes the coordinate pair out of either centroid
\* shape; the centroids are given here as the pairs themselves.
SecondaryOutcomes(k) ==
    {[kind |-> "throw", centroids |-> <<>>], [kind |-> "none", centroids |-> <<>>]}
        \cup {[kind |-> "ok", centroids |-> c] : c \in CentroidSets(k)}

-----------------------------------------------------------------------------
(***************************************************************************)
(* analyze, clustering.ts lines 16-132.                                    *)
(***************************************************************************)
\* The argument data, and the input's runs of valid records.
data == DataOf(shape)

runs == RunsOf(shape)

\* const features (lines 18-25)
features == Features(data)

\* const clusterPoints (lines 52-54) of the iteration the loop is in
clusterPoints == ClusterPointsOf(data, primaryClusters, uniqueClusters[ci])

\* History entry of one loop iteration: the cluster id, its member count m, the
\* derived sub-cluster count k (0: none derived), the number of centers nc,
\* how the iteration ended, and the position h its centers took in Hcenters
\* (0: not pushed).
Visit(id, m, k, nc, fate, h) ==
    [id |-> id, m |-> m, k |-> k, nc |-> nc, fate |-> fate, h |-> h]

\* Lines 18-30: filter, clamp, early return.
Filter ==
    /\ pc = "start"
    /\ actualNClusters' = ClampClusters(nCluster, Len(features))
    /\ IF NothingToCluster(actualNClusters', Len(features))
       THEN pc' = "done"
       ELSE pc' = "primary"
    /\ longs' = <<>>
    /\ lats' = <<>>
    /\ UNCHANGED <<shape, nCluster, primaryClusters, uniqueClusters, ci,
                   subClusters, Hcenters, Pedges, kmeansRuns, thrownAt, visited>>
    /\ UNCHANGED alphaVars
    /\ UNCHANGED kmVars

\* Lines 37-48: the result of the primary clustering and the distinct ids.
PrimaryResult ==
    /\ pc = "primary"
    /\ kmeansRuns' = kmeansRuns + 1
    /\ \E o \in PrimaryOutcomes(runs, actualNClusters) :
         CASE o.kind = "throw" ->
                /\ pc' = "rejected"
                /\ thrownAt' = "primary"
                /\ UNCHANGED <<primaryClusters, uniqueClusters>>
           [] o.kind = "none" ->
                /\ pc' = "done"
                /\ UNCHANGED <<thrownAt, primaryClusters, uniqueClusters>>
           [] OTHER ->
                /\ primaryClusters' = o.clusters
                /\ uniqueClusters' = UniqueClusters(o.clusters)
                /\ pc' = "loop"
                /\ UNCHANGED thrownAt
    /\ ci' = 1
    /\ Hcenters' = <<>>
    /\ Pedges' = <<>>
    /\ UNCHANGED <<shape, nCluster, actualNClusters, subClusters,
                   longs, lats, visited>>
    /\ UNCHANGED alphaVars

\* Lines 32-48: the primary clustering, its generator drained in one step.
Primary ==
    /\ PrimaryResult
    /\ UNCHANGED kmVars

\* Lines 50-66: the members of the next cluster and its sub-cluster count.
ClusterHead ==
    /\ pc = "loop"
    /\ ci <= Len(uniqueClusters)
    /\ \E m \in {Len(clusterPoints)} :
         LET clusterId == uniqueClusters[ci]
         IN  IF m < MinClusterPoints
             THEN /\ visited' = Append(visited, Visit(clusterId, m, 0, 0, "small", 0))
                  /\ ci' = ci + 1
                  /\ UNCHANGED <<pc, subClusters>>
             ELSE /\ subClusters' = SubClusterCount(m)
                  /\ pc' = "secondary"
                  /\ UNCHANGED <<ci, visited>>
    /\ UNCHANGED <<shape, nCluster, actualNClusters, primaryClusters,
                   uniqueClusters, Hcenters, Pedges, longs, lats, kmeansRuns,
                   thrownAt>>
    /\ UNCHANGED alphaVars

ClusterBegin ==
    /\ ClusterHead
    /\ UNCHANGED kmVars

\* alphaShape is not running.
AlphaIdle ==
    /\ points = <<>>
    /\ alpha = AnalyzeAlpha
    /\ onlyOuter = TRUE
    /\ triangles = <<>>
    /\ t = 0
    /\ edges = <<>>
    /\ apc = "idle"
    /\ resultEdges = <<>>
    /\ survived = {}
    /\ dstat = "none"

\* The call of alphaShape is over: its locals are gone.
AlphaLeave ==
    /\ points' = <<>>
    /\ alpha' = AnalyzeAlpha
    /\ onlyOuter' = TRUE
    /\ triangles' = <<>>
    /\ t' = 0
    /\ edges' = <<>>
    /\ apc' = "idle"
    /\ resultEdges' = <<>>
    /\ survived' = {}
    /\ dstat' = "none"

\* alphaShape(centers, 1) is entered.
CallAlphaShape(centers) ==
    /\ points' = centers
    /\ alpha' = AnalyzeAlpha
    /\ onlyOuter' = TRUE
    /\ triangles' = <<>>
    /\ t' = 0
    /\ edges' = <<>>
    /\ apc' = "entry"
    /\ resultEdges' = <<>>
    /\ survived' = {}
    /\ dstat' = "none"

\* The loop body ends (continue, or its last line): its constants go out of
\* scope and the loop moves on.
EndIteration(entry) ==
    /\ visited' = Append(visited, entry)
    /\ ci' = ci + 1
    /\ subClusters' = 0
    /\ pc' = "loop"

\* Lines 77-100: the result of the secondary clustering, the centers, the
\* call of alphaShape.
SecondaryResult ==
    /\ pc = "secondary"
    /\ kmeansRuns' = kmeansRuns + 1
    /\ LET clusterId == uniqueClusters[ci]
           m == Len(clusterPoints)
       IN  \E o \in SecondaryOutcomes(subClusters) :
             CASE o.kind = "throw" ->
                    /\ pc' = "rejected"
                    /\ thrownAt' = "secondary"
                    /\ UNCHANGED <<ci, visited, subClusters>>
                    /\ UNCHANGED alphaVars
               [] o.kind = "none" ->
                    /\ EndIteration(Visit(clusterId, m, subClusters, 0, "nocentroids", 0))
                    /\ UNCHANGED thrownAt
                    /\ UNCHANGED alphaVars
               [] OTHER ->
                    IF Len(o.centroids) < MinCenters
                    THEN /\ EndIteration(Visit(clusterId, m, subClusters, Len(o.centroids),
                                               "fewcenters", 0))
                         /\ UNCHANGED thrownAt
                         /\ UNCHANGED alphaVars
                    ELSE /\ CallAlphaShape(o.centroids)
                         /\ pc' = "alpha"
                         /\ UNCHANGED <<ci, visited, thrownAt, subClusters>>
    /\ UNCHANGED <<shape, nCluster, actualNClusters, primaryClusters,
                   uniqueClusters, Hcenters, Pedges, longs, lats>>

\* Lines 69-100: the secondary clustering, its generator drained in one step.
Secondary ==
    /\ SecondaryResult
    /\ UNCHANGED kmVars

\* Lines 98-112: alphaShape has returned or thrown; centers is the array that
\* was passed as points.
AlphaReturn ==
    /\ pc = "alpha"
    /\ apc \in {"done", "raised"}
    /\ LET clusterId == uniqueClusters[ci]
           m == Len(clusterPoints)
           centers == points
       IN  IF apc = "raised"
           THEN /\ EndIteration(Visit(clusterId, m, subClusters, Len(centers), "alphafailed", 0))
                /\ UNCHANGED <<Hcenters, Pedges>>
           ELSE IF Len(resultEdges) > 0
           THEN /\ Hcenters' = Append(Hcenters, centers)
                /\ Pedges' = Append(Pedges, resultEdges)
                /\ EndIteration(Visit(clusterId, m, subClusters, Len(centers), "kept",
                                    Len(Hcenters) + 1))
           ELSE /\ EndIteration(Visit(clusterId, m, subClusters, Len(centers), "noedges", 0))
                /\ UNCHANGED <<Hcenters, Pedges>>
    /\ AlphaLeave
    /\ UNCHANGED <<shape, nCluster, actualNClusters, primaryClusters,
                   uniqueClusters, longs, lats, kmeansRuns, thrownAt>>
    /\ UNCHANGED kmVars

\* Lines 114-131: the loop over uniqueClusters has ended; build longs and lats.
AssembleBoundary ==
    /\ pc = "loop"
    /\ ci > Len(uniqueClusters)
    /\ longs' = Assemble(Hcenters, Pedges, 1)
    /\ lats' = Assemble(Hcenters, Pedges, 2)
    /\ pc' = "done"
    /\ UNCHANGED <<shape, nCluster, actualNClusters, primaryClusters,
                   uniqueClusters, ci, subClusters, Hcenters, Pedges,
                   kmeansRuns, thrownAt, visited>>
    /\ UNCHANGED alphaVars
    /\ UNCHANGED kmVars

Next ==
    \/ Filter
    \/ Primary
    \/ ClusterBegin
    \/ Secondary
    \/ AlphaNext
    \/ AlphaReturn
    \/ AssembleBoundary

Init ==
    /\ shape \in Shapes
    /\ nCluster \in 0 .. MaxRequested
    /\ pc = "start"
    /\ actualNClusters = 0
    /\ primaryClusters = <<>>
    /\ uniqueClusters = <<>>
    /\ ci = 1
    /\ subClusters = 0
    /\ Hcenters = <<>>
    /\ Pedges = <<>>
    /\ longs = <<>>
    /\ lats = <<>>
    /\ kmeansRuns = 0
    /\ kiter = 0
    /\ kconv = FALSE
    /\ thrownAt = "none"
    /\ visited = <<>>
    /\ AlphaIdle

Spec == Init /\ [][Next]_vars

-----------------------------------------------------------------------------
(***************************************************************************)
(* SpecTerm: analyze with the for-of loops over the k-means generators     *)
(* (lines 34-36 and 73-76) taken one pass at a time.  ml-kmeans is not     *)
(* among the sources; its generator follows section 4.2 of the             *)
(* specification: it yields a result per iteration until the assignments   *)
(* stop changing or a fixed iteration cap is reached.  Whether an          *)
(* iteration changes the assignments is left open.                         *)
(***************************************************************************)
KmeansContinuesUncapped(iter, conv) == ~conv

\* The generator has another result to yield.
KmeansContinues(iter, conv) == ~conv /\ iter < MaxIterations

\* One pass of a for-of loop: the generator yields the result of one more
\* iteration.  The count is kept within 0 .. MaxIterations.
KmeansYield ==
    /\ KmeansContinues(kiter, kconv)
    /\ kiter' = (kiter + 1) % (MaxIterations + 1)
    /\ kconv' \in BOOLEAN

\* The generator is exhausted and the for-of loop ends.
KmeansEnd ==
    /\ ~KmeansContinues(kiter, kconv)
    /\ UNCHANGED kmVars

\* kmeansGenerator(...) returns a fresh generator (lines 32, 70).
KmeansFresh ==
    /\ kiter' = 0
    /\ kconv' = FALSE

\* Lines 34-36.
PrimaryIterate ==
    /\ pc = "primary"
    /\ KmeansYield
    /\ UNCHANGED <<alphaVars, analyzeVars>>

\* Lines 34-48: the loop over the primary generator ends.
PrimaryDrained ==
    /\ KmeansEnd
    /\ PrimaryResult

\* Lines 50-70: the head of the cluster loop; a cluster that is not skipped
\* gets its secondary generator.
ClusterStart ==
    /\ ClusterHead
    /\ IF pc' = "secondary" THEN KmeansFresh ELSE UNCHANGED kmVars

\* Lines 73-76.
SecondaryIterate ==
    /\ pc = "secondary"
    /\ KmeansYield
    /\ UNCHANGED <<alphaVars, analyzeVars>>

\* Lines 73-100: the loop over the secondary generator ends.
SecondaryDrained ==
    /\ KmeansEnd
    /\ SecondaryResult

NextTerm ==
    \/ Filter
    \/ PrimaryIterate
    \/ PrimaryDrained
    \/ ClusterStart
    \/ SecondaryIterate
    \/ SecondaryDrained
    \/ AlphaNext
    \/ AlphaReturn
    \/ AssembleBoundary

\* Inputs of single valid records around at most one run of 4^4 valid
\* records, for no requested cluster and for the largest request.
InitTerm ==
    /\ Init
    /\ \A i \in 1 .. Len(shape) :
         shape[i] \in {1, MinCenters * MinCenters * MinCenters * MinCenters}
    /\ \A i, j \in 1 .. Len(shape) : i # j => (shape[i] = 1 \/ shape[j] = 1)
    /\ nCluster \in {0, MaxRequested}

\* analyze runs to completion without yielding (it contains no await), so a
\* step that can be taken is taken.
SpecTerm == InitTerm /\ [][NextTerm]_vars /\ WF_vars(NextTerm)

-----------------------------------------------------------------------------
(***************************************************************************)
(* SpecAlpha: alphaShape called directly on grid point sets.               *)
(***************************************************************************)
\* analyze is not running.
AnalyzeIdle ==
    /\ shape = <<>>
    /\ nCluster = 0
    /\ pc = "idle"
    /\ actualNClusters = 0
    /\ primaryClusters = <<>>
    /\ uniqueClusters = <<>>
    /\ ci = 1
    /\ subClusters = 0
    /\ Hcenters = <<>>
    /\ Pedges = <<>>
    /\ longs = <<>>
    /\ lats = <<>>
    /\ kmeansRuns = 0
    /\ kiter = 0
    /\ kconv = FALSE
    /\ thrownAt = "none"
    /\ visited = <<>>

\* Grid point sets of 3 and 4 points, those of 5 points that hold two opposite
\* corners of the grid, and one row of 4 collinear points.
PointSets ==
    {S \in SUBSET Grid : Cardinality(S) \in (MinPoints - 1) .. MinPoints}
        \cup {S \cup {<<0, 0>>, <<GridMax, GridMax>>} :
                 S \in {R \in SUBSET (Grid \ {<<0, 0>>, <<GridMax, GridMax>>}) :
                          Cardinality(R) = MinPoints - 1}}
        \cup {{<<x, 0>> : x \in 0 .. (MinPoints - 1)}}

InitAlpha ==
    /\ \E S \in PointSets : points = SortedSeq(S)
    /\ alpha \in 1 .. MaxAlpha
    /\ onlyOuter \in BOOLEAN
    /\ triangles = <<>>
    /\ t = 0
    /\ edges = <<>>
    /\ apc = "entry"
    /\ resultEdges = <<>>
    /\ survived = {}
    /\ dstat = "none"
    /\ AnalyzeIdle

SpecAlpha == InitAlpha /\ [][AlphaNext]_vars

-----------------------------------------------------------------------------
(***************************************************************************)
(* SpecFilter: the filter step (lines 18-30) on records with missing,      *)
(* null, NaN and infinite coordinates among valid ones.                    *)
(***************************************************************************)
FilterShapes == UNION {[1 .. n -> OddKinds \cup {1}] : n \in 0 .. MaxSegs}

InitFilter ==
    /\ shape \in FilterShapes
    /\ nCluster \in 0 .. MaxRequested
    /\ pc = "start"
    /\ actualNClusters = 0
    /\ primaryClusters = <<>>
    /\ uniqueClusters = <<>>
    /\ ci = 1
    /\ subClusters = 0
    /\ Hcenters = <<>>
    /\ Pedges = <<>>
    /\ longs = <<>>
    /\ lats = <<>>
    /\ kmeansRuns = 0
    /\ kiter = 0
    /\ kconv = FALSE
    /\ thrownAt = "none"
    /\ visited = <<>>
    /\ AlphaIdle

SpecFilter == InitFilter /\ [][Filter]_vars

-----------------------------------------------------------------------------
(***************************************************************************)
(* SpecEdges: the edge map of one alphaShape call under any sequence of    *)
(* addEdge calls, in either mode.                                          *)
(***************************************************************************)
\* One call addEdge(i, j) on two distinct point indices (lines 12-22).
AddEdgeCall ==
    /\ apc = "loop"
    /\ \E i, j \in 0 .. MaxIndex :
         /\ i # j
         /\ edges' = addEdge(edges, i, j, onlyOuter)
    /\ UNCHANGED <<points, alpha, onlyOuter, triangles, t, apc, resultEdges, survived, dstat>>
    /\ UNCHANGED analyzeVars
    /\ UNCHANGED kmVars

\* Inside the try block, the Map just created (line 11).
InitEdges ==
    /\ points = <<>>
    /\ alpha = AnalyzeAlpha
    /\ onlyOuter \in BOOLEAN
    /\ triangles = <<>>
    /\ t = 0
    /\ edges = <<>>
    /\ apc = "loop"
    /\ resultEdges = <<>>
    /\ survived = {}
    /\ dstat = "ok"
    /\ AnalyzeIdle

SpecEdges == InitEdges /\ [][AddEdgeCall]_vars

-----------------------------------------------------------------------------
(***************************************************************************)
(* SpecCount: the head of one loop iteration (lines 50-66) for a single    *)
(* primary cluster of m members: the state of analyze after the primary    *)
(* pass put m valid records into cluster 0.                                *)
(***************************************************************************)
InitCount ==
    /\ \E m \in 1 .. MaxMembers :
         /\ shape = <<m>>
         /\ primaryClusters = [n \in 1 .. m |-> 0]
    /\ nCluster = 1
    /\ pc = "loop"
    /\ actualNClusters = 1
    /\ uniqueClusters = <<0>>
    /\ ci = 1
    /\ subClusters = 0
    /\ Hcenters = <<>>
    /\ Pedges = <<>>
    /\ longs = <<>>
    /\ lats = <<>>
    /\ kmeansRuns = 1
    /\ kiter = 0
    /\ kconv = FALSE
    /\ thrownAt = "none"
    /\ visited = <<>>
    /\ AlphaIdle

SpecCount == InitCount /\ [][ClusterBegin]_vars

-----------------------------------------------------------------------------
(***************************************************************************)
(* SpecAssemble: the boundary assembly (lines 114-131) entered with one    *)
(* centroid set and any edge list over indices 0 .. centers.length, the    *)
(* last of which is outside the centroid set.                              *)
(***************************************************************************)
EdgeLists(n) ==
    LET I == 0 .. n
        pairs == {p \in I \X I : p[1] # p[2]}
    IN  UNION {[1 .. len -> pairs] : len \in 1 .. MaxEdges}

InitAssemble ==
    /\ \E centers \in CentroidSets(MinCenters) :
         /\ Hcenters = <<centers>>
         /\ Pedges \in {<<es>> : es \in EdgeLists(Len(centers))}
    /\ shape = <<>>
    /\ nCluster = 1
    /\ pc = "loop"
    /\ actualNClusters = 1
    /\ primaryClusters = <<>>
    /\ uniqueClusters = <<>>
    /\ ci = 1
    /\ subClusters = 0
    /\ longs = <<>>
    /\ lats = <<>>
    /\ kmeansRuns = 0
    /\ kiter = 0
    /\ kconv = FALSE
    /\ thrownAt = "none"
    /\ visited = <<>>
    /\ AlphaIdle

SpecAssemble == InitAssemble /\ [][AssembleBoundary]_vars

-----------------------------------------------------------------------------
(***************************************************************************)
(* Properties.                                                             *)
(***************************************************************************)
TriangleOffsets == {tt \in 0 .. (Len(triangles) - 1) : tt % 3 = 0}

UndirectedEdges(tt) ==
    {{triangles[tt + 1], triangles[tt + 2]},
     {triangles[tt + 2], triangles[tt + 3]},
     {triangles[tt + 3], triangles[tt + 1]}}

\* Non-zero area and circumradius below alpha, tested exactly.
PassesExactly(tt) ==
    LET pa == Pt(points, triangles[tt + 1])
        pb == Pt(points, triangles[tt + 2])
        pc3 == Pt(points, triangles[tt + 3])
    IN  /\ Cross(pa, pb, pc3) # 0
        /\ 4 * Dist2(pa, pb) * Dist2(pb, pc3) * Dist2(pc3, pa)
             < 4 * Cross(pa, pb, pc3) * Cross(pa, pb, pc3) * 4 * alpha * alpha

\* Circumradius above alpha, or zero area, tested exactly.
FailsExactly(tt) ==
    LET pa == Pt(points, triangles[tt + 1])
        pb == Pt(points, triangles[tt + 2])
        pc3 == Pt(points, triangles[tt + 3])
    IN  \/ Cross(pa, pb, pc3) = 0
        \/ 4 * Dist2(pa, pb) * Dist2(pb, pc3) * Dist2(pc3, pa)
             > 4 * Cross(pa, pb, pc3) * Cross(pa, pb, pc3) * 4 * alpha * alpha

\* The number of surviving triangles that the undirected edge u borders.
BorderCount(u) == Cardinality({tt \in survived : u \in UndirectedEdges(tt)})

SurvivingEdges == UNION {UndirectedEdges(tt) : tt \in survived}

ResultUndirected == {{resultEdges[n][1], resultEdges[n][2]} : n \in 1 .. Len(resultEdges)}

\* C1: in outer-only mode, for a point set of at least 4 points, alphaShape
\* returns exactly the edges that border exactly one surviving triangle, each
\* once: an edge shared by two surviving triangles is absent, every edge of
\* exactly one surviving triangle is present.  The surviving triangles are
\* those of non-zero area whose circumradius is below alpha.
C1_OuterEdgesBorderOneTriangle ==
    (apc = "done" /\ onlyOuter /\ Len(points) >= MinPoints) =>
        /\ \A tt \in TriangleOffsets :
             /\ PassesExactly(tt) => tt \in survived
             /\ FailsExactly(tt) => tt \notin survived
        /\ ResultUndirected = {u \in SurvivingEdges : BorderCount(u) = 1}
        /\ Cardinality(ResultUndirected) = Len(resultEdges)

\* C1 witness: alphaShape has returned in outer-only mode, two surviving
\* triangles shared an edge, and edges remain.
C1_Witness ==
    /\ apc = "done"
    /\ onlyOuter
    /\ Len(points) >= MinPoints
    /\ \E u \in SurvivingEdges : BorderCount(u) = 2
    /\ resultEdges # <<>>

\* C6: alphaShape never raises, and it returns no edge when fewer than 4
\* points are supplied, when the triangulation step raises, or when no
\* triangle has a circumradius below alpha.
C6_EmptyAndNeverRaises ==
    /\ apc # "raised"
    /\ (/\ apc = "done"
        /\ \/ Len(points) < MinPoints
           \/ dstat = "threw"
           \/ dstat = "ok" /\ \A tt \in TriangleOffsets : FailsExactly(tt))
       => resultEdges = <<>>

\* C6 witness: the triangulation step raised on at least 4 points and
\* alphaShape returned the empty list.
C6_Witness ==
    /\ apc = "done"
    /\ dstat = "threw"
    /\ Len(points) >= MinPoints
    /\ resultEdges = <<>>

\* The valid points, by their position among the features, that the primary
\* pass assigned to cluster c, longitude first.
AssignedMembers(c) ==
    LET idx == SelectSeq(Indices(features), LAMBDA i : primaryClusters[i] = c)
    IN  [n \in 1 .. Len(idx) |-> <<features[idx[n]][2], features[idx[n]][1]>>]

\* C2: the members that analyze passes to the secondary clustering of a
\* primary cluster are exactly the valid points that the primary pass
\* assigned to that cluster, longitude first.
C2_MembersAreAssignedPoints ==
    pc = "secondary" => clusterPoints = AssignedMembers(uniqueClusters[ci])

\* Position of the first point that the primary pass assigned to cluster c.
FirstIndex(c) ==
    CHOOSE i \in 1 .. Len(primaryClusters) :
        /\ primaryClusters[i] = c
        /\ \A j \in 1 .. (i - 1) : primaryClusters[j] # c

KeptVisits == SelectSeq(visited, LAMBDA v : v.fate = "kept")

\* C3 as amended: the distinct primary cluster ids are processed in the order
\* in which they first appear in the primary assignment, each once, and the
\* centers of the clusters that yield edges enter Hcenters, from which the
\* output is merged front to back, in that same order.
C3_FirstAppearanceOrder ==
    /\ \A p, q \in 1 .. Len(visited) :
         p < q => FirstIndex(visited[p].id) < FirstIndex(visited[q].id)
    /\ Len(KeptVisits) = Len(Hcenters)
    /\ \A n \in 1 .. Len(KeptVisits) : KeptVisits[n].h = n
    /\ (pc = "done" /\ primaryClusters # <<>>) =>
         {visited[p].id : p \in 1 .. Len(visited)}
             = {primaryClusters[i] : i \in 1 .. Len(primaryClusters)}

\* C3 as claimed: the ids are processed in ascending numeric order.
C3_AscendingOrder ==
    \A p, q \in 1 .. Len(visited) : p < q => visited[p].id < visited[q].id

\* C3 witness: analyze returned after processing cluster 1 before cluster 0,
\* both of which yielded edges.
C3_Witness ==
    /\ pc = "done"
    /\ Len(visited) = 2
    /\ visited[1].id > visited[2].id
    /\ Len(Hcenters) = 2
    /\ longs # <<>>

\* The number of records with two numeric coordinates.
ValidCount ==
    Len(SelectSeq(data, LAMBDA r : r.Latitude[1] = "number" /\ r.Longitude[1] = "number"))

\* C4: the primary cluster count is min(requested, number of valid points);
\* when it is below 1 or there is no valid point, analyze returns empty longs
\* and lats without running any clustering.  Stated where the filter step
\* leaves analyze, about to run the primary clustering or returned, and at
\* every return.
C4_ClampAndEarlyReturn ==
    pc \in {"primary", "done"} =>
        LET valid == ValidCount
        IN  /\ actualNClusters = (IF nCluster <= valid THEN nCluster ELSE valid)
            /\ (nCluster < 1 \/ valid < 1) =>
                 /\ pc = "done"
                 /\ longs = <<>>
                 /\ lats = <<>>
                 /\ kmeansRuns = 0

\* C4 witness: analyze returned for a request of 0 clusters over valid points.
C4_Witness ==
    /\ pc = "done"
    /\ nCluster < 1
    /\ ValidCount >= 1
    /\ kmeansRuns = 0
    /\ longs = <<>>

Pow4(k) == k * k * k * k

\* C5 as amended: for a primary cluster of m >= 4 members the derived
\* sub-cluster count is the largest k with k^4 <= m (and at least 1); a
\* cluster of fewer than 4 members is skipped before any count is derived.
C5_CountIsFloorOfFourthRoot ==
    /\ pc = "secondary" =>
         /\ Len(clusterPoints) >= MinClusterPoints
         /\ subClusters >= 1
         /\ Pow4(subClusters) <= Len(clusterPoints)
         /\ Pow4(subClusters + 1) > Len(clusterPoints)
    /\ \A p \in 1 .. Len(visited) :
         /\ visited[p].fate = "small" <=> visited[p].m < MinClusterPoints
         /\ visited[p].fate = "small" => visited[p].k = 0
         /\ visited[p].fate # "small" =>
              /\ visited[p].k >= 1
              /\ Pow4(visited[p].k) <= visited[p].m
              /\ Pow4(visited[p].k + 1) > visited[p].m

\* C5 as claimed: for every cluster of m >= 1 members a count is derived and
\* equals max(1, floor(m^0.25)).
C5_CountDerivedForEverySize ==
    (pc = "secondary" \/ visited # <<>>) =>
        /\ pc = "secondary"
        /\ subClusters >= 1
        /\ Pow4(subClusters) <= Len(clusterPoints) \/ subClusters = 1
        /\ Pow4(subClusters + 1) > Len(clusterPoints)

\* C5 witness: a cluster of 80 members got 2 sub-clusters.
C5_Witness ==
    /\ pc = "secondary"
    /\ Len(clusterPoints) = 5 * MinCenters * MinCenters
    /\ subClusters = 2

ClusterSize(c) == Cardinality({i \in 1 .. Len(primaryClusters) : primaryClusters[i] = c})

AllClustersBelow256 ==
    \A c \in {primaryClusters[i] : i \in 1 .. Len(primaryClusters)} :
        ClusterSize(c) < Pow4(MinCenters)

\* C7: a primary cluster whose secondary clustering yields fewer than 4
\* centroids contributes nothing to Hcenters and Pedges, and when every
\* primary cluster has fewer than 256 members analyze returns empty longs and
\* lats.
C7_FewCentroidsNoBoundary ==
    /\ \A p \in 1 .. Len(visited) :
         visited[p].nc < MinCenters => (visited[p].fate # "kept" /\ visited[p].h = 0)
    /\ Len(Hcenters) = Len(KeptVisits)
    /\ (pc = "done" /\ AllClustersBelow256) => (longs = <<>> /\ lats = <<>>)

\* C7 witness: analyze returned empty output after a secondary clustering
\* that yielded fewer than 4 centroids, every cluster being below 256 members.
C7_Witness ==
    /\ pc = "done"
    /\ AllClustersBelow256
    /\ \E p \in 1 .. Len(visited) : visited[p].fate = "fewcenters" /\ visited[p].nc >= 1
    /\ longs = <<>>
    /\ lats = <<>>

RECURSIVE EdgesBefore(_)
\* The number of edges in the first i entries of Pedges.
EdgesBefore(i) == IF i = 0 THEN 0 ELSE EdgesBefore(i - 1) + Len(Pedges[i])

\* C8: longs and lats have equal length, one position per edge of the clusters
\* that yielded at least one edge; the position of edge (j, k) of a cluster
\* holds the longitudes (in longs) and the latitudes (in lats) of centroids j
\* and k of that same cluster's centroid set.
C8_OutputMatchesEdges ==
    /\ Len(longs) = Len(lats)
    /\ Len(Hcenters) = Len(Pedges)
    /\ \A i \in 1 .. Len(Pedges) : Len(Pedges[i]) > 0
    /\ pc = "done" =>
         /\ Len(longs) = EdgesBefore(Len(Pedges))
         /\ \A i \in 1 .. Len(Pedges) : \A n \in 1 .. Len(Pedges[i]) :
              LET p == EdgesBefore(i - 1) + n
                  j == Pedges[i][n][1]
                  k == Pedges[i][n][2]
              IN  /\ longs[p] = <<Hcenters[i][j + 1][1], Hcenters[i][k + 1][1]>>
                  /\ lats[p] = <<Hcenters[i][j + 1][2], Hcenters[i][k + 1][2]>>

\* C8 witness: analyze returned segments of two clusters with different
\* centroid sets.
C8_Witness ==
    /\ pc = "done"
    /\ Len(Hcenters) = 2
    /\ Hcenters[1] # Hcenters[2]
    /\ Len(longs) = Len(Pedges[1]) + Len(Pedges[2])
    /\ Len(longs) > Len(Pedges[1])

\* C9: a failure of the secondary clustering or of the alpha-shape computation
\* of one primary cluster never leaves analyze as an exception.
C9_SecondaryFailureIsContained ==
    ~(pc = "rejected" /\ thrownAt = "secondary")

C11_AnalyzeTerminates == <>(pc \in {"done", "rejected"})

\* C11 witness: analyze has returned after two k-means runs, the last of which
\* was ended by the iteration cap without having converged.
C11_Witness ==
    /\ pc = "done"
    /\ kmeansRuns = 2
    /\ kiter = MaxIterations
    /\ ~kconv

\* Both coordinates are present and are finite numbers.
FiniteRow(row) == row.Latitude[1] = "number" /\ row.Longitude[1] = "number"

\* C12: the filter keeps, in input order, exactly the records whose latitude
\* and longitude are both present and finite numbers; records with a missing,
\* null, NaN or infinite coordinate do not reach the primary clustering.
C12_KeepsExactlyFiniteRecords ==
    pc # "start" =>
        LET kept == SelectSeq(data, FiniteRow)
        IN  features = [n \in DOMAIN kept |-> <<kept[n].Latitude, kept[n].Longitude>>]

\* The entries of the map es are for pairwise different undirected edges.
OneEntryPerEdge(es) ==
    \A n, k \in 1 .. Len(es) :
        n # k => {es[n].val[1], es[n].val[2]} # {es[k].val[1], es[k].val[2]}

\* C13: after every addEdge call, in either mode, the edge map holds no
\* directed pair together with its reverse and holds each undirected edge at
\* most once; with onlyOuter disabled no entry of the map is ever removed.
C13_EdgeMapCanonical ==
    [][/\ OneEntryPerEdge(edges')
       /\ ~onlyOuter => \A n \in 1 .. Len(edges) :
                           \E k \in 1 .. Len(edges') : edges'[k] = edges[n]]_vars

\* C13 witness: with onlyOuter disabled, every undirected edge over the point
\* indices has been registered.
C13_Witness ==
    /\ apc = "loop"
    /\ ~onlyOuter
    /\ 2 * Len(edges) = (MaxIndex + 1) * MaxIndex

=============================================================================
